---- MODULE Spec2Model ----
(***************************************************************************)
(* Model of video_clipper.py: the Worker thread that runs one external     *)
(* command (Worker.run) and the YtdlpGui window that starts workers and    *)
(* folds their signals into its widgets.                                   *)
(*                                                                         *)
(* Python values are tagged records (PNone, PStr, PInt, PList, PDict); a   *)
(* dict is a TLA+ function from keys to values.  A Python str that the     *)
(* program builds is a sequence of string parts; the text a process writes *)
(* is a sequence of tokens, a token being one character (Ch) or one        *)
(* rendered JSON member '"key": value' (Member).                           *)
(*                                                                         *)
(* The labels and the output folder dialog only render state and are left  *)
(* out; message_box keeps the title of the dialog the last click or        *)
(* terminal slot showed ("none" if it showed none); log_output keeps the   *)
(* paragraphs appended to the log widget, one entry per append.            *)
(***************************************************************************)
EXTENDS Integers, Sequences, FiniteSets, TLC

VARIABLES
  video_info,           \* self.video_info
  fetch_button,         \* [enabled]
  url_input,            \* [enabled]
  download_button,      \* [enabled]
  video_quality_combo,  \* [enabled, items, index]; an item is its itemData
  audio_quality_combo,  \* [enabled, items, index]
  start_time_edit,      \* [time, max], seconds of the day
  end_time_edit,        \* [time, max]
  message_box,          \* title of the QMessageBox the last GUI handler showed
  log_output,           \* self.log_output: the texts appended, in order
  workers,              \* the Worker threads not yet done with: id -> record
  queue                 \* signals emitted by workers, queued for the GUI thread

vars == <<video_info, fetch_button, url_input, download_button,
          video_quality_combo, audio_quality_combo, start_time_edit,
          end_time_edit, message_box, log_output, workers, queue>>

gui_vars == <<video_info, fetch_button, url_input, download_button,
              video_quality_combo, audio_quality_combo, start_time_edit,
              end_time_edit, message_box, log_output>>

-----------------------------------------------------------------------------
(* Bounds of the model *)

\* longest process output (in tokens) that SpecRun enumerates
MaxOut == 4
\* longest 'formats' list that SpecFormats enumerates
MaxFormats == 2
\* Worker threads the model can hold at once (the code sets no limit)
MaxWorkers == 2
\* longest log at which the model still starts a download: the log grows
\* with every download until the next fetch clears it, and a successful
\* fetch leaves three or four entries, so each fetch is followed by at
\* most one download
MaxLog == 4

-----------------------------------------------------------------------------
(* Python values *)

PNone == [ty |-> "none"]
PStr(s) == [ty |-> "str", s |-> s]
PInt(n) == [ty |-> "int", n |-> n]
PList(xs) == [ty |-> "list", xs |-> xs]
PDict(d) == [ty |-> "dict", d |-> d]
PBool(b) == [ty |-> "bool", b |-> b]

\* a str of one part
S(x) == PStr(<<x>>)

EmptyDict == [k \in {} |-> PNone]

\* bool(v)
Truthy(v) ==
  CASE v.ty = "none" -> FALSE
    [] v.ty = "bool" -> v.b
    [] v.ty = "str" -> v.s # <<>>
    [] v.ty = "int" -> v.n # 0
    [] v.ty = "list" -> v.xs # <<>>
    [] v.ty = "dict" -> DOMAIN v.d # {}
    [] OTHER -> TRUE

\* dict.get(k, default)
Get(v, k, default) == IF k \in DOMAIN v.d THEN v.d[k] ELSE default

-----------------------------------------------------------------------------
(* Text written by a process *)

Ch(c) == [c |-> c]
Member(k, v) == [k |-> k, v |-> v]

NL == Ch("\n")
SP == Ch(" ")
LBrace == Ch("{")
RBrace == Ch("}")
Comma == Ch(",")

IsWhitespace(t) == t \in {NL, SP}
IsMember(t) == DOMAIN t = {"k", "v"}

\* str.strip() with the given whitespace set
RECURSIVE LStrip(_, _)
LStrip(s, ws) ==
  IF s # <<>> /\ Head(s) \in ws THEN LStrip(Tail(s), ws) ELSE s

RECURSIVE RStrip(_, _)
RStrip(s, ws) ==
  IF s # <<>> /\ s[Len(s)] \in ws THEN RStrip(SubSeq(s, 1, Len(s) - 1), ws) ELSE s

Strip(s, ws) == RStrip(LStrip(s, ws), ws)

\* str.find(c): 0-based index of the first occurrence, -1 if there is none
Find(s, c) ==
  IF \E i \in 1..Len(s) : s[i] = c
  THEN (CHOOSE i \in 1..Len(s) : s[i] = c /\ \A j \in 1..(i - 1) : s[j] # c) - 1
  ELSE -1

\* json.loads of a text whose first token is '{': a scanner over the tokens.
\* The values of the members are taken to be within the decoder's limits
\* (nesting depth, digits of an integer), so that it raises nothing but
\* JSONDecodeError.
\* st is what the scanner expects next: "open" (member or '}'), "member"
\* (a member, after a comma), "next" (',' or '}'), "end" (only whitespace).
RECURSIVE JsonScan(_, _, _, _)
JsonScan(s, i, st, acc) ==
  IF i > Len(s) THEN [ok |-> st = "end", val |-> PDict(acc)]
  ELSE LET t == s[i] IN
    IF IsWhitespace(t) THEN JsonScan(s, i + 1, st, acc)
    ELSE IF IsMember(t)
      THEN IF st \in {"open", "member"}
           THEN JsonScan(s, i + 1, "next", (t.k :> t.v) @@ acc)
           ELSE [ok |-> FALSE, val |-> PNone]
    ELSE IF t = Comma
      THEN IF st = "next"
           THEN JsonScan(s, i + 1, "member", acc)
           ELSE [ok |-> FALSE, val |-> PNone]
    ELSE IF t = RBrace
      THEN IF st \in {"open", "next"}
           THEN JsonScan(s, i + 1, "end", acc)
           ELSE [ok |-> FALSE, val |-> PNone]
    ELSE [ok |-> FALSE, val |-> PNone]

json_loads(s) ==
  IF s # <<>> /\ s[1] = LBrace
  THEN JsonScan(s, 2, "open", EmptyDict)
  ELSE [ok |-> FALSE, val |-> PNone]

-----------------------------------------------------------------------------
(* Worker *)

Progress(text) == [sig |-> "progress", text |-> text]
Finished(data) == [sig |-> "finished", data |-> data]
Error(msg) == [sig |-> "error", msg |-> msg]

IsTerminal(e) == e.sig \in {"finished", "error"}

MsgNotFound(command) ==
  <<"Error: Command '">> \o command[1].s \o <<"' not found. Is it in your PATH?">>
MsgUnexpected == <<"An unexpected error occurred: ", "e">>
MsgNoJson == <<"Could not find video information in the output.">>
MsgBadJson == <<"Failed to parse video information from yt-dlp's output.">>
MsgExit(return_code) == <<"Process finished with error code ", ToString(return_code)>>

\* '-j' in self.command or '--dump-json' in self.command
is_json_dump(command) ==
  \/ \E i \in 1..Len(command) : command[i] = S("-j")
  \/ \E i \in 1..Len(command) : command[i] = S("--dump-json")

\* RunOutcome without the else branch of 'if json_start_index != -1'
RunOutcome_no_else(command, full_output, return_code) ==
  IF is_json_dump(command)
  THEN LET json_start_index == Find(full_output, LBrace) IN
       IF json_start_index # -1
       THEN LET json_data_string ==
                  SubSeq(full_output, json_start_index + 1, Len(full_output))
                r == json_loads(json_data_string)
            IN IF r.ok THEN <<Finished(r.val)>> ELSE <<Error(MsgBadJson)>>
       ELSE <<>>
  ELSE IF return_code = 0 THEN <<Finished(PNone)>>
  ELSE <<Error(MsgExit(return_code))>>

\* RunOutcome that takes the JSON only from a process that exited with 0
RunOutcome_needs_zero(command, full_output, return_code) ==
  IF is_json_dump(command) /\ return_code = 0
  THEN LET json_start_index == Find(full_output, LBrace) IN
       IF json_start_index # -1
       THEN LET json_data_string ==
                  SubSeq(full_output, json_start_index + 1, Len(full_output))
                r == json_loads(json_data_string)
            IN IF r.ok THEN <<Finished(r.val)>> ELSE <<Error(MsgBadJson)>>
       ELSE <<Error(MsgNoJson)>>
  ELSE IF return_code = 0 THEN <<Finished(PNone)>>
  ELSE <<Error(MsgExit(return_code))>>

\* RunOutcome with one message for both parse failures
RunOutcome_one_message(command, full_output, return_code) ==
  IF is_json_dump(command)
  THEN LET json_start_index == Find(full_output, LBrace) IN
       IF json_start_index # -1
       THEN LET json_data_string ==
                  SubSeq(full_output, json_start_index + 1, Len(full_output))
                r == json_loads(json_data_string)
            IN IF r.ok THEN <<Finished(r.val)>> ELSE <<Error(MsgNoJson)>>
       ELSE <<Error(MsgNoJson)>>
  ELSE IF return_code = 0 THEN <<Finished(PNone)>>
  ELSE <<Error(MsgExit(return_code))>>

\* RunOutcome that decodes the first object and ignores what follows it
RunOutcome_first_object(command, full_output, return_code) ==
  IF is_json_dump(command)
  THEN LET json_start_index == Find(full_output, LBrace) IN
       IF json_start_index # -1
       THEN LET rest == SubSeq(full_output, json_start_index + 1, Len(full_output))
                end == Find(rest, RBrace)
                json_data_string == IF end = -1 THEN rest ELSE SubSeq(rest, 1, end + 1)
                r == json_loads(json_data_string)
            IN IF r.ok THEN <<Finished(r.val)>> ELSE <<Error(MsgBadJson)>>
       ELSE <<Error(MsgNoJson)>>
  ELSE IF return_code = 0 THEN <<Finished(PNone)>>
  ELSE <<Error(MsgExit(return_code))>>

\* The signals Worker.run emits once the process has exited, in order
RunOutcome(command, full_output, return_code) ==
  IF is_json_dump(command)
  THEN LET json_start_index == Find(full_output, LBrace) IN
       IF json_start_index # -1
       THEN LET json_data_string ==
                  SubSeq(full_output, json_start_index + 1, Len(full_output))
                r == json_loads(json_data_string)
            IN IF r.ok THEN <<Finished(r.val)>> ELSE <<Error(MsgBadJson)>>
       ELSE <<Error(MsgNoJson)>>
  ELSE IF return_code = 0 THEN <<Finished(PNone)>>
  ELSE <<Error(MsgExit(return_code))>>

\* Worker(command) ... worker.start(): a thread about to run, its signals
\* connected to the slots of `kind`.  stdout is what the process it launches
\* is going to write, line by line.
NewWorker(kind, command, stdout) ==
  [kind |-> kind, command |-> command, pc |-> "popen", stdout |-> stdout,
   full_output |-> <<>>, return_code |-> -1, sent |-> <<>>]

FreeIds == (1..MaxWorkers) \ DOMAIN workers

StartWorker(ws, id, w) == (id :> w) @@ ws

\* self.<signal>.emit(...): queued for the GUI thread
Emit(id, w, sigs, pc) ==
  /\ workers' = [workers EXCEPT ![id] =
                   [w EXCEPT !.sent = w.sent \o [i \in 1..Len(sigs) |-> sigs[i].sig],
                             !.pc = pc]]
  /\ queue' = queue \o [i \in 1..Len(sigs) |-> [id |-> id, kind |-> w.kind, ev |-> sigs[i]]]

ExitCodes == {0, 1}

\* subprocess.Popen(self.command, ...)
WorkerPopen(id) ==
  /\ id \in DOMAIN workers
  /\ workers[id].pc = "popen"
  /\ \/ /\ workers' = [workers EXCEPT ![id].pc = "reading"]
        /\ UNCHANGED queue
     \/ Emit(id, workers[id], <<Error(MsgNotFound(workers[id].command))>>, "done")
     \/ Emit(id, workers[id], <<Error(MsgUnexpected)>>, "done")
  /\ UNCHANGED gui_vars

\* one turn of: for line in iter(self.process.stdout.readline, '')
WorkerReadLine(id) ==
  /\ id \in DOMAIN workers
  /\ workers[id].pc = "reading"
  /\ workers[id].stdout # <<>>
  /\ LET w == workers[id]
         line == Head(w.stdout)
     IN Emit(id, [w EXCEPT !.stdout = Tail(w.stdout),
                           !.full_output = w.full_output \o line],
             <<Progress(Strip(line, {NL, SP}))>>, "reading")
  /\ UNCHANGED gui_vars

\* an exception raised while reading (except Exception as e)
WorkerReadRaises(id) ==
  /\ id \in DOMAIN workers
  /\ workers[id].pc = "reading"
  /\ Emit(id, workers[id], <<Error(MsgUnexpected)>>, "done")
  /\ UNCHANGED gui_vars

\* WorkerExit that does not wait for the end of the output
WorkerExit_early(id) ==
  /\ id \in DOMAIN workers
  /\ workers[id].pc = "reading"
  /\ \E return_code \in ExitCodes :
       Emit(id, [workers[id] EXCEPT !.return_code = return_code],
            RunOutcome(workers[id].command, workers[id].full_output, return_code),
            IF workers[id].stdout = <<>> THEN "done" ELSE "reading")
  /\ UNCHANGED gui_vars

\* readline returned '': self.process.wait() and the classification
WorkerExit(id) ==
  /\ id \in DOMAIN workers
  /\ workers[id].pc = "reading"
  /\ workers[id].stdout = <<>>
  /\ \E return_code \in ExitCodes :
       Emit(id, [workers[id] EXCEPT !.return_code = return_code],
            RunOutcome(workers[id].command, workers[id].full_output, return_code),
            "done")
  /\ UNCHANGED gui_vars

WorkerStep ==
  \E id \in 1..MaxWorkers :
    \/ WorkerPopen(id)
    \/ WorkerReadLine(id)
    \/ WorkerReadRaises(id)
    \/ WorkerExit(id)

-----------------------------------------------------------------------------
(* Widgets *)

Min(a, b) == IF a < b THEN a ELSE b
Max(a, b) == IF a < b THEN b ELSE a

\* seconds in a day: QTime wraps around it
SecsPerDay == 86400

\* QTime(0, 0, 0).addSecs(n)
AddSecs(n) == n % SecsPerDay

\* QTimeEdit.setTime: the value is bound to the widget's range
SetTime(edit, t) == [edit EXCEPT !.time = Max(0, Min(t, edit.max))]

\* QTimeEdit.setMaximumTime: the range changes and the value is bound to it
SetMaximumTime(edit, m) == [time |-> Min(edit.time, m), max |-> m]

\* QTime.toString("HH:mm:ss")
D2(n) == <<ToString(n \div 10), ToString(n % 10)>>
HMS(t) == D2(t \div 3600) \o <<":">> \o D2((t % 3600) \div 60) \o <<":">> \o D2(t % 60)

\* QComboBox.currentData() / itemData(index)
ItemData(combo, index) ==
  IF index >= 0 /\ index < Len(combo.items) THEN combo.items[index + 1] ELSE PNone
CurrentData(combo) == ItemData(combo, combo.index)

\* QComboBox.clear()
Cleared(combo) == [combo EXCEPT !.items = <<>>, !.index = -1]

\* Filled on a combo that was not cleared first
Filled_without_clear(combo, items) ==
  [combo EXCEPT !.items = combo.items \o items,
                !.index = IF combo.items \o items = <<>> THEN -1
                          ELSE IF combo.index >= 0 THEN combo.index ELSE 0]

\* the combo after addItem of each of items, from empty
Filled(combo, items) ==
  [combo EXCEPT !.items = items, !.index = IF items = <<>> THEN -1 ELSE 0]

\* update_ui_state with the fetch button left enabled during a download
update_ui_state_fetch_stays(initial, fetching, info_loaded, downloading) ==
  LET can_download == info_loaded /\ ~downloading /\ ~fetching IN
  [fetch_button |-> ~fetching,
   url_input |-> ~(fetching \/ downloading),
   download_button |-> can_download,
   video_quality_combo |-> can_download,
   audio_quality_combo |-> can_download]

\* The enabled flags update_ui_state leaves
update_ui_state(initial, fetching, info_loaded, downloading) ==
  LET can_download == info_loaded /\ ~downloading /\ ~fetching IN
  [fetch_button |-> ~(fetching \/ downloading),
   url_input |-> ~(fetching \/ downloading),
   download_button |-> can_download,
   video_quality_combo |-> can_download,
   audio_quality_combo |-> can_download]

\* _on_video_quality_changed that enables the audio combo and never
\* disables it
on_video_quality_changed_only_enables(combo, index, audio_enabled) ==
  IF index < 0 THEN audio_enabled
  ELSE LET video_data == ItemData(combo, index) IN
       IF Truthy(video_data)
       THEN audio_enabled \/ ~Truthy(Get(video_data, "merged", PBool(FALSE)))
       ELSE audio_enabled

\* _on_video_quality_changed(index): the audio combo's enabled flag after it
on_video_quality_changed(combo, index, audio_enabled) ==
  IF index < 0 THEN audio_enabled
  ELSE LET video_data == ItemData(combo, index) IN
       IF Truthy(video_data)
       THEN ~Truthy(Get(video_data, "merged", PBool(FALSE)))
       ELSE audio_enabled

SetEnabled(w, b) == [w EXCEPT !.enabled = b]

\* self.update_ui_state(...) applied to the widgets, for the primed state
ApplyUi(ui, vcombo, acombo) ==
  /\ fetch_button' = SetEnabled(fetch_button, ui.fetch_button)
  /\ url_input' = SetEnabled(url_input, ui.url_input)
  /\ download_button' = SetEnabled(download_button, ui.download_button)
  /\ video_quality_combo' = SetEnabled(vcombo, ui.video_quality_combo)
  /\ audio_quality_combo' = SetEnabled(acombo, ui.audio_quality_combo)

-----------------------------------------------------------------------------
(* on_fetch_finished: the pure parts *)

\* int(duration or 0) raises (ValueError, TypeError) unless it is a number.
\* A str stands for a non-numeric one.
DurationValue(info) ==
  LET duration == Get(info, "duration", PInt(0)) IN
  IF Truthy(duration) THEN duration ELSE PInt(0)
DurationRaises(info) == DurationValue(info).ty # "int"

\* duration_time that takes the duration for minutes
duration_time_in_minutes(info) == AddSecs(DurationValue(info).n * 60)

duration_time(info) == AddSecs(DurationValue(info).n)

\* key=lambda x: x.get('height', 0) or 0
HeightKey(f) ==
  LET h == Get(f, "height", PInt(0)) IN IF Truthy(h) THEN h ELSE PInt(0)

\* sorted(self.video_info.get('formats', []), key=...) raises TypeError on a
\* value that is not iterable, AttributeError on an element without .get, and
\* TypeError on keys that do not compare
FormatsValue(info) == Get(info, "formats", PList(<<>>))
FormatsList(info) ==
  IF FormatsValue(info).ty = "list" THEN FormatsValue(info).xs ELSE <<>>
FormatsRaises(info) ==
  LET fs == FormatsValue(info) IN
  CASE fs.ty = "list" ->
         \/ \E i \in 1..Len(fs.xs) : fs.xs[i].ty # "dict"
         \/ /\ Len(fs.xs) > 1
            /\ \E i \in 1..Len(fs.xs) : HeightKey(fs.xs[i]).ty # "int"
    [] fs.ty = "str" -> fs.s # <<>>
    [] fs.ty = "dict" -> DOMAIN fs.d # {}
    [] OTHER -> TRUE

\* sorted(..., reverse=True): stable, descending by key
RECURSIVE InsertDesc(_, _)
InsertDesc(f, sorted) ==
  IF sorted = <<>> THEN <<f>>
  ELSE IF HeightKey(Head(sorted)).n >= HeightKey(f).n
       THEN <<Head(sorted)>> \o InsertDesc(f, Tail(sorted))
       ELSE <<f>> \o sorted

RECURSIVE SortedFormats(_)
SortedFormats(xs) ==
  IF xs = <<>> THEN <<>>
  ELSE InsertDesc(xs[Len(xs)], SortedFormats(SubSeq(xs, 1, Len(xs) - 1)))

\* if f.get('vcodec') != 'none' and height:
IsVideoItem(f) ==
  Get(f, "vcodec", PNone) # S("none") /\ Truthy(Get(f, "height", PNone))

\* is_merged = f.get('acodec') != 'none'
is_merged(f) == Get(f, "acodec", PNone) # S("none")

\* if f.get('acodec') != 'none' and f.get('vcodec') == 'none':
IsAudioItem(f) ==
  Get(f, "acodec", PNone) # S("none") /\ Get(f, "vcodec", PNone) = S("none")

\* {'id': format_id, 'merged': is_merged}
VideoItem(f) ==
  PDict([id |-> Get(f, "format_id", PNone), merged |-> PBool(is_merged(f))])
AudioItem(f) == Get(f, "format_id", PNone)

RECURSIVE VideoItems(_)
VideoItems(fs) ==
  IF fs = <<>> THEN <<>>
  ELSE (IF IsVideoItem(Head(fs)) THEN <<VideoItem(Head(fs))>> ELSE <<>>)
       \o VideoItems(Tail(fs))

RECURSIVE AudioItems(_)
AudioItems(fs) ==
  IF fs = <<>> THEN <<>>
  ELSE (IF IsAudioItem(Head(fs)) THEN <<AudioItem(Head(fs))>> ELSE <<>>)
       \o AudioItems(Tail(fs))

-----------------------------------------------------------------------------
(* Inputs: what the user types and what the external tool answers *)

\* a JSON object as the tool prints it, from its members in order
RECURSIVE JoinMembers(_)
JoinMembers(ms) ==
  IF ms = <<>> THEN <<>>
  ELSE IF Len(ms) = 1 THEN <<ms[1]>>
  ELSE <<ms[1], Comma>> \o JoinMembers(Tail(ms))

JsonText(ms) == <<LBrace>> \o JoinMembers(ms) \o <<RBrace>>

F22 == PDict([format_id |-> S("22"), height |-> PInt(720),
              vcodec |-> S("avc1"), acodec |-> S("mp4a")])
F137 == PDict([format_id |-> S("137"), height |-> PInt(1080),
               vcodec |-> S("avc1"), acodec |-> S("none")])
F140 == PDict([format_id |-> S("140"), vcodec |-> S("none"), acodec |-> S("mp4a")])
F251 == PDict([format_id |-> S("251"), vcodec |-> S("none"), acodec |-> S("opus")])
F18 == PDict([format_id |-> S("18"), height |-> PInt(360), vcodec |-> S("avc1")])

InfoDemo == <<Member("title", S("Demo")), Member("duration", PInt(2)),
              Member("webpage_url", S("u")),
              Member("formats", PList(<<F22, F140>>))>>
InfoHD == <<Member("title", S("HD")), Member("duration", PInt(3)),
            Member("webpage_url", S("u")),
            Member("formats", PList(<<F22, F137, F140, F251>>))>>
InfoBare == <<Member("webpage_url", S("u"))>>
InfoNullFormats == <<Member("title", S("N")), Member("duration", PInt(2)),
                     Member("webpage_url", S("u")), Member("formats", PNone)>>
InfoBadDuration == <<Member("title", S("B")), Member("duration", S("abc")),
                     Member("webpage_url", S("u")),
                     Member("formats", PList(<<F22>>))>>
InfoDashJ == <<Member("title", S("J")), Member("duration", PInt(1)),
               Member("webpage_url", S("-j")),
               Member("formats", PList(<<F22>>))>>
InfoNoAcodec == <<Member("title", PNone), Member("duration", PInt(2)),
                  Member("webpage_url", S("u")),
                  Member("formats", PList(<<F18, F140>>))>>

InfoVideoOnly == <<Member("title", S("V")), Member("duration", PInt(2)),
                   Member("webpage_url", S("u")),
                   Member("formats", PList(<<F137>>))>>

\* a video of a day and two seconds, one of no seconds, one without duration
InfoLong == <<Member("title", S("L")), Member("duration", PInt(SecsPerDay + 2)),
              Member("webpage_url", S("u")),
              Member("formats", PList(<<F22>>))>>
InfoZero == <<Member("title", S("Z")), Member("duration", PInt(0)),
              Member("webpage_url", S("u")),
              Member("formats", PList(<<F22>>))>>
InfoNoDuration == <<Member("title", S("D")), Member("webpage_url", S("u")),
                    Member("formats", PList(<<F22>>))>>

Infos == {InfoDemo, InfoHD, InfoBare, InfoNullFormats, InfoBadDuration,
          InfoDashJ, InfoNoAcodec, InfoVideoOnly, InfoLong, InfoZero,
          InfoNoDuration, <<>>}

Warning == <<SP, Ch("W"), NL>>

\* what 'yt-dlp --dump-json url' may write, as lines
FetchOutputs ==
  {<<JsonText(ms) \o <<NL>>>> : ms \in Infos}
    \cup {<<Warning, JsonText(InfoDemo) \o <<NL>>>>, <<Warning>>}

\* what a clip download may write
DownloadOutputs == {<<>>, <<Warning>>}

\* the text of the URL field and of the filename field at a click
UrlTexts == {<<>>, <<" ">>, <<"u">>}
FilenameTexts == {<<" ">>, <<"f">>}

\* the times the user sets in the two time fields
UserTimes == {0, 1, 2}

-----------------------------------------------------------------------------
(* YtdlpGui *)

NoWorkers == [id \in {} |-> PNone]

Init ==
  /\ video_info = PNone
  /\ LET ui == update_ui_state(TRUE, FALSE, FALSE, FALSE) IN
       /\ fetch_button = [enabled |-> ui.fetch_button]
       /\ url_input = [enabled |-> ui.url_input]
       /\ download_button = [enabled |-> ui.download_button]
       /\ video_quality_combo =
            [enabled |-> ui.video_quality_combo, items |-> <<>>, index |-> -1]
       /\ audio_quality_combo =
            [enabled |-> ui.audio_quality_combo, items |-> <<>>, index |-> -1]
  /\ start_time_edit = [time |-> 0, max |-> SecsPerDay - 1]
  /\ end_time_edit = [time |-> 0, max |-> SecsPerDay - 1]
  /\ message_box = "none"
  /\ log_output = <<>>
  /\ workers = NoWorkers
  /\ queue = <<>>

\* the user picks another entry of the video combo: currentIndexChanged
SelectVideo(index) ==
  /\ video_quality_combo.enabled
  /\ index \in 0..(Len(video_quality_combo.items) - 1)
  /\ index # video_quality_combo.index
  /\ video_quality_combo' = [video_quality_combo EXCEPT !.index = index]
  /\ audio_quality_combo' =
       SetEnabled(audio_quality_combo,
                  on_video_quality_changed(video_quality_combo, index,
                                           audio_quality_combo.enabled))
  /\ UNCHANGED <<video_info, fetch_button, url_input, download_button,
                 start_time_edit, end_time_edit, message_box, log_output,
                 workers, queue>>

\* the user picks another entry of the audio combo (no slot is connected)
SelectAudio(index) ==
  /\ audio_quality_combo.enabled
  /\ index \in 0..(Len(audio_quality_combo.items) - 1)
  /\ index # audio_quality_combo.index
  /\ audio_quality_combo' = [audio_quality_combo EXCEPT !.index = index]
  /\ UNCHANGED <<video_info, fetch_button, url_input, download_button,
                 video_quality_combo, start_time_edit, end_time_edit,
                 message_box, log_output, workers, queue>>

\* the user edits a time field (the fields are never disabled)
EditStart(t) ==
  /\ start_time_edit' = SetTime(start_time_edit, t)
  /\ start_time_edit' # start_time_edit
  /\ UNCHANGED <<video_info, fetch_button, url_input, download_button,
                 video_quality_combo, audio_quality_combo, end_time_edit,
                 message_box, log_output, workers, queue>>

EditEnd(t) ==
  /\ end_time_edit' = SetTime(end_time_edit, t)
  /\ end_time_edit' # end_time_edit
  /\ UNCHANGED <<video_info, fetch_button, url_input, download_button,
                 video_quality_combo, audio_quality_combo, start_time_edit,
                 message_box, log_output, workers, queue>>

\* a str of the program as the text of a log entry
Text(parts) == [i \in 1..Len(parts) |-> Ch(parts[i])]

\* f"Fetching info for: {url}..."
FetchingLine(url) == Text(<<"Fetching info for: ">> \o url \o <<"...">>)
\* f"\nERROR: {error_message}"
ErrorLine(error_message) == Text(<<"\nERROR: ">> \o error_message)
ParsedLine == Text(<<"\nSuccessfully parsed video information!">>)
MsgEmptyInfo == <<"Received empty video information.">>
\* "="*50
Separator == <<"==================================================">>
StartingLines == <<Text(<<"\n">> \o Separator), Text(<<"Starting download with command:">>)>>
CompletedLine == Text(<<"\nDownload completed successfully!">>)
DownloadErrorLine(error_message) == Text(<<"\nDOWNLOAD ERROR: ">> \o error_message)

\* command = ['yt-dlp', '--dump-json', url]
FetchCommand(url) == <<S("yt-dlp"), S("--dump-json"), PStr(url)>>

\* fetch_video_info, on a click of the fetch button with `text` in the URL field
fetch_video_info(text) ==
  /\ fetch_button.enabled
  /\ LET url == Strip(text, {" "}) IN
     IF url = <<>>
     THEN /\ message_box' = "Input Error"
          /\ UNCHANGED <<video_info, fetch_button, url_input, download_button,
                         video_quality_combo, audio_quality_combo,
                         start_time_edit, end_time_edit, log_output, workers,
                         queue>>
     ELSE /\ FreeIds # {}
          /\ log_output' = <<FetchingLine(url)>>
          /\ ApplyUi(update_ui_state(FALSE, TRUE, FALSE, FALSE),
                     video_quality_combo, audio_quality_combo)
          /\ \E stdout \in FetchOutputs :
               workers' = StartWorker(workers, CHOOSE id \in FreeIds : TRUE,
                                      NewWorker("fetch", FetchCommand(url), stdout))
          /\ message_box' = "none"
          /\ UNCHANGED <<video_info, start_time_edit, end_time_edit, queue>>

\* the head of the queue is a signal for the slot `sig` of a `kind` worker
Delivers(kind, sig) ==
  /\ queue # <<>>
  /\ Head(queue).kind = kind
  /\ Head(queue).ev.sig = sig

\* the signal is consumed; after its terminal signal a worker is done with
Consume ==
  /\ queue' = Tail(queue)
  /\ workers' = IF IsTerminal(Head(queue).ev)
                THEN [id \in DOMAIN workers \ {Head(queue).id} |-> workers[id]]
                ELSE workers

\* update_log(text): appends to the log widget
update_log ==
  /\ queue # <<>>
  /\ Head(queue).ev.sig = "progress"
  /\ Consume
  /\ log_output' = Append(log_output, Head(queue).ev.text)
  /\ UNCHANGED <<video_info, fetch_button, url_input, download_button,
                 video_quality_combo, audio_quality_combo, start_time_edit,
                 end_time_edit, message_box>>

\* on_fetch_error that lets the download go on with the metadata stored
FetchErrorBody_keeps_ready(error_message) ==
  /\ log_output' = Append(log_output, ErrorLine(error_message))
  /\ message_box' = "Error"
  /\ ApplyUi(update_ui_state(FALSE, FALSE, video_info # PNone, FALSE),
             video_quality_combo, audio_quality_combo)
  /\ UNCHANGED <<video_info, start_time_edit, end_time_edit>>

\* on_fetch_error that also drops the stored metadata
FetchErrorBody_forgets(error_message) ==
  /\ log_output' = Append(log_output, ErrorLine(error_message))
  /\ message_box' = "Error"
  /\ ApplyUi(update_ui_state(FALSE, FALSE, FALSE, FALSE),
             video_quality_combo, audio_quality_combo)
  /\ video_info' = PNone
  /\ UNCHANGED <<start_time_edit, end_time_edit>>

\* the body of on_fetch_error(error_message)
FetchErrorBody(error_message) ==
  /\ log_output' = Append(log_output, ErrorLine(error_message))
  /\ message_box' = "Error"
  /\ ApplyUi(update_ui_state(FALSE, FALSE, FALSE, FALSE),
             video_quality_combo, audio_quality_combo)
  /\ UNCHANGED <<video_info, start_time_edit, end_time_edit>>

on_fetch_error ==
  /\ Delivers("fetch", "error")
  /\ Consume
  /\ FetchErrorBody(Head(queue).ev.msg)

\* on_fetch_finished(info).  An exception raised in the slot ends it there:
\* what was assigned before stays, what follows is not run.
on_fetch_finished ==
  /\ Delivers("fetch", "finished")
  /\ Consume
  /\ LET info == Head(queue).ev.data IN
     IF ~Truthy(info) THEN FetchErrorBody(MsgEmptyInfo)
     ELSE IF DurationRaises(info)
     THEN /\ log_output' = Append(log_output, ParsedLine)
          /\ video_info' = info
          /\ UNCHANGED <<fetch_button, url_input, download_button,
                         video_quality_combo, audio_quality_combo,
                         start_time_edit, end_time_edit, message_box>>
     ELSE
       /\ log_output' = Append(log_output, ParsedLine)
       /\ video_info' = info
       /\ end_time_edit' =
            SetMaximumTime(SetTime(end_time_edit, duration_time(info)),
                           duration_time(info))
       /\ start_time_edit' =
            SetTime(SetMaximumTime(start_time_edit, duration_time(info)), 0)
       /\ IF FormatsRaises(info)
          THEN /\ video_quality_combo' = Cleared(video_quality_combo)
               /\ audio_quality_combo' = Cleared(audio_quality_combo)
               /\ UNCHANGED <<fetch_button, url_input, download_button, message_box>>
          ELSE LET formats == SortedFormats(FormatsList(info))
                   vcombo == Filled(video_quality_combo, VideoItems(formats))
                   acombo == Filled(audio_quality_combo, AudioItems(formats))
                   ui == update_ui_state(FALSE, FALSE, TRUE, FALSE)
               IN /\ ApplyUi([ui EXCEPT !.audio_quality_combo =
                                on_video_quality_changed(vcombo, vcombo.index,
                                                         ui.audio_quality_combo)],
                             vcombo, acombo)
                  /\ message_box' = "none"

\* str(v) inside an f-string
Str(v) ==
  CASE v.ty = "str" -> v.s
    [] v.ty = "int" -> <<ToString(v.n)>>
    [] OTHER -> <<"None">>

\* formats_to_dl of download_clip
formats_to_dl(video_data, audio_format_id) ==
  IF Truthy(video_data.d.merged)
  THEN video_data.d.id
  ELSE PStr(Str(video_data.d.id) \o <<"+">> \o Str(audio_format_id))

\* re.sub(r'[\\/*?:"<>|]', "", title)
ForbiddenChars == {"\\", "/", "*", "?", ":", "\"", "<", ">", "|"}
KeepChar(c) == c \notin ForbiddenChars
safe_title(title) == SelectSeq(title.s, KeepChar)

\* os.path.expanduser("~"), the output folder
output_path == <<"~", "/">>

TitleRaises(info, filename) ==
  filename = <<>> /\ Get(info, "title", S("video")).ty # "str"

output_template(info, filename) ==
  IF filename = <<>>
  THEN PStr(output_path \o safe_title(Get(info, "title", S("video"))) \o <<".%(ext)s">>)
  ELSE PStr(output_path \o filename \o <<".%(ext)s">>)

DownloadCommand(info, fmts, start, end, template) ==
  <<S("yt-dlp"), S("-f"), fmts, S("--download-sections"),
    PStr(<<"*">> \o HMS(start) \o <<"-">> \o HMS(end)),
    S("--force-keyframes-at-cuts"), S("--merge-output-format"), S("mkv"),
    S("-o"), template, Get(info, "webpage_url", PNone)>>

\* " ".join(f"'{c}'" if " " in c else c for c in command) raises TypeError
\* on an element that is no str
CommandRaises(command) == \E i \in 1..Len(command) : command[i].ty # "str"

\* f"'{c}'" if " " in c else c
Quoted(c) == IF \E i \in 1..Len(c.s) : c.s[i] = " "
             THEN <<"'">> \o c.s \o <<"'">> ELSE c.s

RECURSIVE JoinCommand(_)
JoinCommand(command) ==
  IF command = <<>> THEN <<>>
  ELSE IF Len(command) = 1 THEN Quoted(command[1])
  ELSE Quoted(command[1]) \o <<" ">> \o JoinCommand(Tail(command))

\* the command download_clip builds from the widgets, with `text` in the
\* filename field
clip_command(text) ==
  DownloadCommand(video_info,
                  formats_to_dl(CurrentData(video_quality_combo),
                                CurrentData(audio_quality_combo)),
                  start_time_edit.time, end_time_edit.time,
                  output_template(video_info, Strip(text, {" "})))

\* a request refused with a QMessageBox.warning
Reject(title) ==
  /\ message_box' = title
  /\ UNCHANGED <<video_info, fetch_button, url_input, download_button,
                 video_quality_combo, audio_quality_combo, start_time_edit,
                 end_time_edit, log_output, workers, queue>>

\* download_clip without its time check
TimeError_unchecked == FALSE

\* start_time_edit.time() >= end_time_edit.time()
TimeError == start_time_edit.time >= end_time_edit.time

\* download_clip, on a click of the download button with `text` in the
\* filename field
download_clip(text) ==
  /\ download_button.enabled
  /\ LET video_data == CurrentData(video_quality_combo)
         audio_format_id == CurrentData(audio_quality_combo)
         filename == Strip(text, {" "})
     IN
     IF ~Truthy(video_data) THEN Reject("Selection Error")
     ELSE IF ~Truthy(video_data.d.merged) /\ ~Truthy(audio_format_id)
     THEN Reject("Selection Error")
     ELSE IF TimeError THEN Reject("Time Error")
     ELSE IF TitleRaises(video_info, filename) THEN Reject("none")
     ELSE LET command == clip_command(text)
          IN IF CommandRaises(command)
             THEN /\ Len(log_output) <= MaxLog
                  /\ log_output' = log_output \o StartingLines
                  /\ message_box' = "none"
                  /\ UNCHANGED <<video_info, fetch_button, url_input,
                                 download_button, video_quality_combo,
                                 audio_quality_combo, start_time_edit,
                                 end_time_edit, workers, queue>>
             ELSE /\ FreeIds # {}
                  /\ Len(log_output) <= MaxLog
                  /\ log_output' =
                       log_output \o StartingLines
                         \o <<Text(JoinCommand(command)),
                              Text(Separator \o <<"\n">>)>>
                  /\ ApplyUi(update_ui_state(FALSE, FALSE, FALSE, TRUE),
                             video_quality_combo, audio_quality_combo)
                  /\ \E stdout \in DownloadOutputs :
                       workers' = StartWorker(workers, CHOOSE id \in FreeIds : TRUE,
                                              NewWorker("download", command, stdout))
                  /\ message_box' = "none"
                  /\ UNCHANGED <<video_info, start_time_edit, end_time_edit, queue>>

on_download_finished ==
  /\ Delivers("download", "finished")
  /\ Consume
  /\ ApplyUi(update_ui_state(FALSE, FALSE, TRUE, FALSE),
             video_quality_combo, audio_quality_combo)
  /\ log_output' = Append(log_output, CompletedLine)
  /\ message_box' = "Success"
  /\ UNCHANGED <<video_info, start_time_edit, end_time_edit>>

\* on_download_error that leaves the window as on_fetch_error does
on_download_error_as_fetch_error ==
  /\ Delivers("download", "error")
  /\ Consume
  /\ ApplyUi(update_ui_state(FALSE, FALSE, FALSE, FALSE),
             video_quality_combo, audio_quality_combo)
  /\ log_output' = Append(log_output, DownloadErrorLine(Head(queue).ev.msg))
  /\ message_box' = "Download Error"
  /\ UNCHANGED <<video_info, start_time_edit, end_time_edit>>

on_download_error ==
  /\ Delivers("download", "error")
  /\ Consume
  /\ ApplyUi(update_ui_state(FALSE, FALSE, TRUE, FALSE),
             video_quality_combo, audio_quality_combo)
  /\ log_output' = Append(log_output, DownloadErrorLine(Head(queue).ev.msg))
  /\ message_box' = "Download Error"
  /\ UNCHANGED <<video_info, start_time_edit, end_time_edit>>

-----------------------------------------------------------------------------
(* The window with its workers *)

UserStep ==
  \/ \E text \in UrlTexts : fetch_video_info(text)
  \/ \E text \in FilenameTexts : download_clip(text)
  \/ \E index \in 0..(Len(video_quality_combo.items) - 1) : SelectVideo(index)
  \/ \E index \in 0..(Len(audio_quality_combo.items) - 1) : SelectAudio(index)
  \/ \E t \in UserTimes : EditStart(t)
  \/ \E t \in UserTimes : EditEnd(t)

SlotStep ==
  \/ update_log
  \/ on_fetch_finished
  \/ on_fetch_error
  \/ on_download_finished
  \/ on_download_error

Next == UserStep \/ SlotStep \/ WorkerStep

Spec == Init /\ [][Next]_vars

-----------------------------------------------------------------------------
(* Worker.run alone, over every output up to MaxOut tokens *)

Alphabet == {Ch("x"), NL, LBrace, RBrace, Comma,
             Member("a", PInt(1)), Member("b", PInt(2))}

Texts == UNION {[1..n -> Alphabet] : n \in 0..MaxOut}

\* the lines readline returns for a text: each ends with its '\n', but for
\* a last line without one
RECURSIVE SplitLines(_)
SplitLines(text) ==
  IF text = <<>> THEN <<>>
  ELSE LET k == Find(text, NL) IN
       IF k = -1 THEN <<text>>
       ELSE <<SubSeq(text, 1, k + 1)>> \o SplitLines(SubSeq(text, k + 2, Len(text)))

ClipCommand ==
  DownloadCommand(PDict([webpage_url |-> S("u")]), S("22"), 0, 1,
                  output_template(PDict(EmptyDict), <<"f">>))

RunWorkers ==
  {NewWorker("fetch", FetchCommand(<<"u">>), SplitLines(text)) : text \in Texts}
    \cup {NewWorker("download", ClipCommand, SplitLines(text)) : text \in Texts}

InitRun ==
  /\ video_info = PNone
  /\ fetch_button = [enabled |-> FALSE]
  /\ url_input = [enabled |-> FALSE]
  /\ download_button = [enabled |-> FALSE]
  /\ video_quality_combo = [enabled |-> FALSE, items |-> <<>>, index |-> -1]
  /\ audio_quality_combo = [enabled |-> FALSE, items |-> <<>>, index |-> -1]
  /\ start_time_edit = [time |-> 0, max |-> SecsPerDay - 1]
  /\ end_time_edit = [time |-> 0, max |-> SecsPerDay - 1]
  /\ message_box = "none"
  /\ log_output = <<>>
  /\ \E w \in RunWorkers : workers = StartWorker(NoWorkers, 1, w)
  /\ queue = <<>>

NextRun == WorkerStep

SpecRun == InitRun /\ [][NextRun]_vars

-----------------------------------------------------------------------------
(* on_fetch_finished over every 'formats' list up to MaxFormats entries *)

Codecs == {"absent", "none", "codec"}
Heights == {-1, 0, 360, 720}    \* -1: the entry has no 'height'

Opt(k, present, v) == IF present THEN (k :> v) ELSE EmptyDict

FormatEntry(vc, ac, h) ==
  PDict((("format_id" :> PStr(<<vc, ac, ToString(h)>>))
           @@ Opt("vcodec", vc # "absent", S(vc)))
           @@ Opt("acodec", ac # "absent", S(ac))
           @@ Opt("height", h # -1, PInt(h)))

FormatEntries == {FormatEntry(vc, ac, h) : vc \in Codecs, ac \in Codecs, h \in Heights}

FormatLists == UNION {[1..n -> FormatEntries] : n \in 0..MaxFormats}

FormatsInfo(fs) ==
  PDict([title |-> S("T"), duration |-> PInt(2), webpage_url |-> S("u"),
         formats |-> PList(fs)])

\* a fetch whose finished signal is about to be delivered
InitFormats ==
  /\ video_info = PNone
  /\ LET ui == update_ui_state(FALSE, TRUE, FALSE, FALSE) IN
       /\ fetch_button = [enabled |-> ui.fetch_button]
       /\ url_input = [enabled |-> ui.url_input]
       /\ download_button = [enabled |-> ui.download_button]
       /\ video_quality_combo =
            [enabled |-> ui.video_quality_combo, items |-> <<>>, index |-> -1]
       /\ audio_quality_combo =
            [enabled |-> ui.audio_quality_combo, items |-> <<>>, index |-> -1]
  /\ start_time_edit = [time |-> 0, max |-> SecsPerDay - 1]
  /\ end_time_edit = [time |-> 0, max |-> SecsPerDay - 1]
  /\ message_box = "none"
  /\ log_output = <<FetchingLine(<<"u">>)>>
  /\ \E fs \in FormatLists :
       /\ workers = StartWorker(NoWorkers, 1,
            [NewWorker("fetch", FetchCommand(<<"u">>), <<>>)
               EXCEPT !.pc = "done", !.return_code = 0, !.sent = <<"finished">>])
       /\ queue = <<[id |-> 1, kind |-> "fetch", ev |-> Finished(FormatsInfo(fs))]>>

NextFormats ==
  \/ on_fetch_finished
  \/ \E index \in 0..(Len(video_quality_combo.items) - 1) : SelectVideo(index)
  \/ \E index \in 0..(Len(audio_quality_combo.items) - 1) : SelectAudio(index)

SpecFormats == InitFormats /\ [][NextFormats]_vars

-----------------------------------------------------------------------------
(* Properties *)

\* the signal a worker emitted last, still queued
LastEventOf(id) ==
  LET idx == {i \in 1..Len(queue) : queue[i].id = id}
  IN queue[CHOOSE i \in idx : \A j \in idx : j <= i].ev

\* Worker.run ran to the end of the process (no exception)
Exited(w) == w.pc = "done" /\ w.return_code # -1

\* no execution is active and both triggers can be used
Ready ==
  /\ DOMAIN workers = {}
  /\ fetch_button.enabled
  /\ download_button.enabled

\* C1: in every reachable state at most one Worker is active (started and
\* its terminal signal not yet delivered).
C1_AtMostOneExecution == Cardinality(DOMAIN workers) <= 1

\* a download is running, after the fetch before it has ended
C1_Witness ==
  \E id \in DOMAIN workers :
    /\ workers[id].kind = "download"
    /\ workers[id].pc = "reading"
    /\ ~fetch_button.enabled
    /\ ~download_button.enabled

\* C2: every execution of Worker.run emits exactly one terminal signal
\* (finished or error) once it has ended, none before, and no progress
\* signal after it.
C2_OneTerminalSignal ==
  \A id \in DOMAIN workers :
    LET sent == workers[id].sent
        n == Len(sent)
    IN /\ \A i \in 1..(n - 1) : sent[i] = "progress"
       /\ workers[id].pc = "done" <=> (n > 0 /\ sent[n] \in {"finished", "error"})

\* a run that emitted two lines and then its terminal signal
C2_Witness ==
  \E id \in DOMAIN workers :
    /\ Exited(workers[id])
    /\ workers[id].sent = <<"progress", "progress", "error">>

\* C3: once an execution has ended and its signals are delivered, the fetch
\* button is enabled again (the controller is back in Idle or Ready), for
\* every outcome and every JSON value.
C3_ReturnsToStableState ==
  (DOMAIN workers = {} /\ queue = <<>>) => fetch_button.enabled

\* C4: in every Ready state the audio combo is enabled iff a video format is
\* selected and it is not merged.
C4_AudioEnabledIffNotMerged ==
  Ready =>
    (audio_quality_combo.enabled <=>
       (/\ Truthy(CurrentData(video_quality_combo))
        /\ ~Truthy(Get(CurrentData(video_quality_combo), "merged", PBool(FALSE)))))

\* the dict a JSON object text stands for
RECURSIVE DictOf(_)
DictOf(ms) ==
  IF ms = <<>> THEN EmptyDict
  ELSE (ms[Len(ms)].k :> ms[Len(ms)].v) @@ DictOf(SubSeq(ms, 1, Len(ms) - 1))

MemberSeqs ==
  UNION {[1..n -> {Member("a", PInt(1)), Member("b", PInt(2))}] : n \in 0..2}

\* text holding no JSON object
NonJsonText(p) ==
  \A i \in 1..Len(p) : \A j \in i..Len(p) : ~json_loads(SubSeq(p, i, j)).ok

\* text = a non-JSON prefix of k tokens, then the object of ms, then
\* nothing or the end of the line
PrefixedJson(text, k, ms) ==
  /\ NonJsonText(SubSeq(text, 1, k))
  /\ \E tail \in {<<>>, <<NL>>} :
       text = SubSeq(text, 1, k) \o JsonText(ms) \o tail

\* C5 as stated: a fetch whose output is any non-JSON prefix followed by a
\* JSON object ends in finished(<that object>), whatever the exit status.
C5_AnyPrefix ==
  \A id \in DOMAIN workers :
    LET w == workers[id] IN
    (Exited(w) /\ w.kind = "fetch") =>
      \A k \in 0..Len(w.full_output) : \A ms \in MemberSeqs :
        PrefixedJson(w.full_output, k, ms) =>
          LastEventOf(id) = Finished(PDict(DictOf(ms)))

\* C5 amended: a fetch whose output is a prefix without any '{' followed by
\* a JSON object ends in finished(<that object>), whatever the exit status.
C5_PrefixWithoutBrace ==
  \A id \in DOMAIN workers :
    LET w == workers[id] IN
    (Exited(w) /\ w.kind = "fetch") =>
      \A k \in 0..Len(w.full_output) : \A ms \in MemberSeqs :
        (/\ PrefixedJson(w.full_output, k, ms)
         /\ Find(SubSeq(w.full_output, 1, k), LBrace) = -1) =>
          LastEventOf(id) = Finished(PDict(DictOf(ms)))

\* a fetch that exited with status 1 after some noise and an object
C5_Witness ==
  \E id \in DOMAIN workers :
    /\ Exited(workers[id])
    /\ workers[id].kind = "fetch"
    /\ workers[id].return_code = 1
    /\ workers[id].full_output = <<Ch("x")>> \o JsonText(<<Member("a", PInt(1))>>)
    /\ LastEventOf(id) = Finished(PDict([a |-> PInt(1)]))

\* C6: a clip download that ran to the end of its process ends in
\* finished(None) on status 0 and in error('Process finished with error
\* code <status>') otherwise, whatever its arguments are.
C6_DownloadByExitStatus ==
  \A id \in DOMAIN workers :
    LET w == workers[id] IN
    (Exited(w) /\ w.kind = "download") =>
      LastEventOf(id) = IF w.return_code = 0 THEN Finished(PNone)
                        ELSE Error(MsgExit(w.return_code))

\* C7: a successful fetch leaves the clip range at [0, duration of the new
\* video].
C7_RangeReset ==
  [][(Delivers("fetch", "finished") /\ ~download_button.enabled
        /\ download_button'.enabled)
       => (/\ start_time_edit'.time = 0
           /\ end_time_edit'.time = DurationValue(video_info').n)]_vars

\* the spec's classification of a format entry
SpecVideoCapable(f) ==
  /\ "vcodec" \in DOMAIN f.d
  /\ f.d.vcodec # S("none")
  /\ "height" \in DOMAIN f.d
SpecAudioCapable(f) ==
  /\ "acodec" \in DOMAIN f.d
  /\ f.d.acodec # S("none")
SpecMerged(f) == SpecVideoCapable(f) /\ SpecAudioCapable(f)

\* how many entries of a list satisfy Test
Count(xs, Test(_)) == Cardinality({i \in 1..Len(xs) : Test(xs[i])})
Ids(xs, Test(_)) == {xs[i].d.format_id : i \in {j \in 1..Len(xs) : Test(xs[j])}}

SpecAudioOnly(f) == SpecAudioCapable(f) /\ ~SpecVideoCapable(f)

\* the entry of the loaded metadata with this format id
EntryOf(id) ==
  LET fs == FormatsList(video_info)
  IN fs[CHOOSE i \in 1..Len(fs) : fs[i].d.format_id = id]

\* C8: after a successful fetch the audio list holds exactly the entries
\* that are audio-capable and not video-capable, and the video list exactly
\* the video-capable entries, by descending height.
C8_FormatLists ==
  download_button.enabled =>
    LET fs == FormatsList(video_info)
        vs == video_quality_combo.items
        as == audio_quality_combo.items
    IN /\ Len(as) = Count(fs, SpecAudioOnly)
       /\ {as[i] : i \in 1..Len(as)} = Ids(fs, SpecAudioOnly)
       /\ Len(vs) = Count(fs, SpecVideoCapable)
       /\ {vs[i].d.id : i \in 1..Len(vs)} = Ids(fs, SpecVideoCapable)
       /\ \A i \in 1..Len(vs) : \A j \in i..Len(vs) :
            HeightKey(EntryOf(vs[i].d.id)).n >= HeightKey(EntryOf(vs[j].d.id)).n

\* everything a rejected request must leave alone
request_state == <<video_info, fetch_button, url_input, download_button,
                   video_quality_combo, audio_quality_combo, start_time_edit,
                   end_time_edit, log_output, workers, queue>>

\* C9: a fetch with a blank URL, a download with no video format, with a
\* video-only format and no audio format, or with start >= end, starts no
\* Worker and changes nothing but the warning shown.
C9_RejectedRequestsChangeNothing ==
  [][((\E text \in UrlTexts :
         Strip(text, {" "}) = <<>> /\ fetch_video_info(text))
      \/ (\E text \in FilenameTexts :
            /\ download_clip(text)
            /\ \/ ~Truthy(CurrentData(video_quality_combo))
               \/ /\ ~Truthy(CurrentData(video_quality_combo).d.merged)
                  /\ ~Truthy(CurrentData(audio_quality_combo))
               \/ start_time_edit.time >= end_time_edit.time))
       => (/\ UNCHANGED request_state
           /\ message_box' \in {"Input Error", "Selection Error", "Time Error"})]_vars

\* a download was refused for its range, with formats selected
C9_Witness ==
  /\ message_box = "Time Error"
  /\ Truthy(CurrentData(video_quality_combo))
  /\ start_time_edit.time >= end_time_edit.time
  /\ DOMAIN workers = {}

\* C10: the format specification of a launched download is the video id
\* alone when the selected entry is merged by the spec's definition, and
\* '<video id>+<audio id>' otherwise.
C10_FormatSpec ==
  \A id \in DOMAIN workers :
    workers[id].kind = "download" =>
      LET v == EntryOf(CurrentData(video_quality_combo).d.id)
          a == CurrentData(audio_quality_combo)
      IN workers[id].command[3] =
           IF SpecMerged(v) THEN v.d.format_id
           ELSE PStr(Str(v.d.format_id) \o <<"+">> \o Str(a))

\* the metadata, the format lists and the selections the window holds
stored_metadata ==
  <<video_info, video_quality_combo.items, video_quality_combo.index,
    audio_quality_combo.items, audio_quality_combo.index>>

FetchActive == \E id \in DOMAIN workers : workers[id].kind = "fetch"

\* the step is the slot of the queue's first signal
SlotRuns(kind, sig) == Delivers(kind, sig) /\ queue' = Tail(queue)

\* the step ends a fetch in error or with an empty object
FailedFetchEnds ==
  \/ SlotRuns("fetch", "error")
  \/ SlotRuns("fetch", "finished") /\ ~Truthy(Head(queue).ev.data)

\* the step ends a fetch with a non-empty object
FetchSucceeds ==
  SlotRuns("fetch", "finished") /\ Truthy(Head(queue).ev.data)

\* no execution is active, a fetch can be requested, a download cannot
Idle ==
  /\ DOMAIN workers = {}
  /\ fetch_button.enabled
  /\ url_input.enabled
  /\ ~download_button.enabled

\* C11: from the request of a fetch to its end in error or in an empty
\* object, the stored metadata, the format lists and the selections do not
\* change, and that end leaves the window in Idle.
C11_FailedFetchKeepsMetadata ==
  [][/\ ((FetchActive \/ FetchActive') /\ ~FetchSucceeds)
          => stored_metadata' = stored_metadata
     /\ FailedFetchEnds => Idle']_vars

\* a fetch returned an empty object while metadata of an earlier fetch,
\* with a format selected, was stored
C11_Witness ==
  /\ Idle
  /\ video_info # PNone
  /\ video_quality_combo.index >= 0
  /\ log_output # <<>>
  /\ log_output[Len(log_output)] = ErrorLine(MsgEmptyInfo)

NotWhitespace(t) == ~IsWhitespace(t)

\* the text is a JSON object: '{', members separated by commas, '}', with
\* whitespace anywhere between them
IsJsonObjectText(text) ==
  \E ms \in MemberSeqs : SelectSeq(text, NotWhitespace) = JsonText(ms)

\* the output of a fetch from its first '{'
FromFirstBrace(text) == SubSeq(text, Find(text, LBrace) + 1, Len(text))

\* C12: a fetch whose output holds no '{' ends in error('Could not find
\* video information in the output.'), and one whose output from the first
\* '{' is no JSON object ends in error("Failed to parse video information
\* from yt-dlp's output.").
C12_ParseFailuresDistinguished ==
  \A id \in DOMAIN workers :
    LET w == workers[id] IN
    (Exited(w) /\ w.kind = "fetch") =>
      IF Find(w.full_output, LBrace) = -1
      THEN LastEventOf(id) = Error(MsgNoJson)
      ELSE ~IsJsonObjectText(FromFirstBrace(w.full_output))
             => LastEventOf(id) = Error(MsgBadJson)

\* a fetch whose output has a '{' that opens no complete object
C12_Witness ==
  \E id \in DOMAIN workers :
    /\ Exited(workers[id])
    /\ workers[id].kind = "fetch"
    /\ workers[id].full_output = <<Ch("x"), LBrace, Member("a", PInt(1))>>
    /\ LastEventOf(id) = Error(MsgBadJson)

\* text = a prefix of k tokens without '{', then the object of ms, then
\* n tokens of non-JSON text
ObjectThenText(text, k, ms, n) ==
  /\ n > 0
  /\ Len(text) = k + Len(JsonText(ms)) + n
  /\ Find(SubSeq(text, 1, k), LBrace) = -1
  /\ SubSeq(text, k + 1, Len(text) - n) = JsonText(ms)
  /\ NonJsonText(SubSeq(text, Len(text) - n + 1, Len(text)))

\* C13 as stated: a fetch whose output is a JSON object from the first '{'
\* followed by trailing non-JSON text ends in finished(<that object>).
C13_TrailingTextAccepted ==
  \A id \in DOMAIN workers :
    LET w == workers[id] IN
    (Exited(w) /\ w.kind = "fetch") =>
      \A k \in 0..Len(w.full_output) : \A n \in 1..Len(w.full_output) :
        \A ms \in MemberSeqs :
          ObjectThenText(w.full_output, k, ms, n) =>
            LastEventOf(id) = Finished(PDict(DictOf(ms)))

\* C13 amended: a fetch whose output is a JSON object from the first '{'
\* followed by trailing non-JSON text that is not all whitespace ends in
\* error("Failed to parse video information from yt-dlp's output.").
C13_TrailingTextRejected ==
  \A id \in DOMAIN workers :
    LET w == workers[id] IN
    (Exited(w) /\ w.kind = "fetch") =>
      \A k \in 0..Len(w.full_output) : \A n \in 1..Len(w.full_output) :
        \A ms \in MemberSeqs :
          (/\ ObjectThenText(w.full_output, k, ms, n)
           /\ \E i \in (Len(w.full_output) - n + 1)..Len(w.full_output) :
                NotWhitespace(w.full_output[i]))
            => LastEventOf(id) = Error(MsgBadJson)

\* a fetch that wrote an object and then a character
C13_Witness ==
  \E id \in DOMAIN workers :
    /\ Exited(workers[id])
    /\ workers[id].kind = "fetch"
    /\ workers[id].full_output = JsonText(<<Member("a", PInt(1))>>) \o <<Ch("x")>>
    /\ LastEventOf(id) = Error(MsgBadJson)

\* QTime.fromString(s, "HH:mm:ss"), in seconds
Digit(s) == CHOOSE d \in 0..9 : ToString(d) = s
Num2(s) == 10 * Digit(s[1]) + Digit(s[2])
ParseHMS(s) ==
  Num2(SubSeq(s, 1, 2)) * 3600 + Num2(SubSeq(s, 4, 5)) * 60 + Num2(SubSeq(s, 7, 8))

\* the start and the end of the '*HH:mm:ss-HH:mm:ss' argument of a command
RangeStart(command) == ParseHMS(SubSeq(command[5].s, 2, 9))
RangeEnd(command) == ParseHMS(SubSeq(command[5].s, 11, 18))

\* C14: the range of every launched download has start < end and both at
\* most the duration of the stored metadata.
C14_RangeWithinDuration ==
  \A id \in DOMAIN workers :
    workers[id].kind = "download" =>
      /\ video_info # PNone
      /\ ~DurationRaises(video_info)
      /\ RangeStart(workers[id].command) < RangeEnd(workers[id].command)
      /\ RangeStart(workers[id].command) <= DurationValue(video_info).n
      /\ RangeEnd(workers[id].command) <= DurationValue(video_info).n

\* a clip of a video longer than a day is being downloaded, after the user
\* moved the start
C14_Witness ==
  \E id \in DOMAIN workers :
    /\ workers[id].kind = "download"
    /\ DurationValue(video_info).n >= SecsPerDay
    /\ RangeStart(workers[id].command) = 1
    /\ RangeEnd(workers[id].command) = 2

\* the signals of worker id still queued, in order
RECURSIVE QueuedOf(_, _)
QueuedOf(q, id) ==
  IF q = <<>> THEN <<>>
  ELSE (IF Head(q).id = id THEN <<Head(q).ev>> ELSE <<>>) \o QueuedOf(Tail(q), id)

IsProgress(e) == e.sig = "progress"

\* the lines worker w has read, as it emitted them
EmittedLines(w) ==
  LET lines == SplitLines(w.full_output)
  IN [i \in 1..Len(lines) |-> Strip(lines[i], {NL, SP})]

\* C15: for the execution in progress, the lines appended to the log
\* followed by the lines still queued are the lines the worker emitted, in
\* order and each once; a queued terminal signal comes after every queued
\* line; and every queued signal is of the one execution in progress, none
\* being queued when an execution starts.
C15_EventsInOrder ==
  /\ Cardinality(DOMAIN workers) <= 1
  /\ \A i \in 1..Len(queue) : queue[i].id \in DOMAIN workers
  /\ \A id \in DOMAIN workers :
       LET w == workers[id]
           queued == QueuedOf(queue, id)
           lines == SelectSeq(queued, IsProgress)
           applied == Len(EmittedLines(w)) - Len(lines)
       IN /\ w.pc = "popen" => queue = <<>>
          /\ \A i \in 1..(Len(queued) - 1) : IsProgress(queued[i])
          /\ applied >= 0
          /\ applied < Len(log_output)
          /\ SubSeq(log_output, Len(log_output) - applied + 1, Len(log_output))
                \o [i \in 1..Len(lines) |-> lines[i].text]
              = EmittedLines(w)

\* a fetch wrote two lines and ended: the first line is in the log, the
\* second and the terminal signal are queued
C15_Witness ==
  \E id \in DOMAIN workers :
    /\ Len(EmittedLines(workers[id])) = 2
    /\ Len(QueuedOf(queue, id)) = 2
    /\ QueuedOf(queue, id)[2].sig = "finished"
    /\ log_output = <<FetchingLine(<<"u">>), EmittedLines(workers[id])[1]>>

\* C16: the progress signal emitted for a line carries the line without its
\* trailing line terminator and otherwise unchanged.
C16_LineOnlyLosesTerminator ==
  [][\A id \in DOMAIN workers :
       WorkerReadLine(id) =>
         queue'[Len(queue')].ev =
           Progress(RStrip(Head(workers[id].stdout), {NL}))]_vars

DownloadActive == \E id \in DOMAIN workers : workers[id].kind = "download"

\* the step is the slot of a download's terminal signal
DownloadEnds ==
  SlotRuns("download", "finished") \/ SlotRuns("download", "error")

\* C17: from the start of a download to its end the stored metadata, the
\* format lists and the selections do not change; its end, finished or
\* error, leaves both triggers enabled, and a request made then with the
\* time fields as they were builds the command of the download that ended.
C17_DownloadKeepsSelection ==
  [][/\ (DownloadActive \/ DownloadActive') => stored_metadata' = stored_metadata
     /\ DownloadEnds =>
          /\ Ready'
          /\ LET command == workers[Head(queue).id].command IN
             (/\ start_time_edit.time = RangeStart(command)
              /\ end_time_edit.time = RangeEnd(command))
               => \E text \in FilenameTexts : clip_command(text)' = command]_vars

\* a download of the second video format ended in error
C17_Witness ==
  /\ Ready
  /\ message_box = "Download Error"
  /\ video_quality_combo.index = 1
  /\ log_output[Len(log_output)] = DownloadErrorLine(MsgExit(1))

\* C18: selecting another video format sets the enabled flag of the audio
\* combo to 'not merged' of the entry selected, and changes nothing else
\* but the selection itself: the audio selection, the metadata, the time
\* fields, the triggers and the executions stay as they were.
C18_SelectVideoFrame ==
  [][\A index \in 0..(Len(video_quality_combo.items) - 1) :
       SelectVideo(index) =>
         /\ audio_quality_combo'.enabled =
              ~Truthy(video_quality_combo.items[index + 1].d.merged)
         /\ audio_quality_combo'.items = audio_quality_combo.items
         /\ audio_quality_combo'.index = audio_quality_combo.index
         /\ video_quality_combo'.items = video_quality_combo.items
         /\ video_quality_combo'.enabled = video_quality_combo.enabled
         /\ UNCHANGED <<video_info, start_time_edit, end_time_edit,
                        fetch_button, url_input, download_button, workers,
                        queue>>]_vars

\* the second audio format was selected, then a merged video format: the
\* audio combo is disabled and keeps its selection
C18_Witness ==
  /\ download_button.enabled
  /\ Truthy(CurrentData(video_quality_combo))
  /\ Truthy(CurrentData(video_quality_combo).d.merged)
  /\ video_quality_combo.index = 1
  /\ ~audio_quality_combo.enabled
  /\ audio_quality_combo.index = 1

\* the format ids of the stored metadata
StoredIds ==
  {FormatsList(video_info)[i].d.format_id : i \in 1..Len(FormatsList(video_info))}

\* C19: while the download button is enabled or a download runs, metadata
\* is stored and both combos hold the lists built from it; the command of
\* a running download has the URL and the format ids of that metadata.
C19_ListsOfStoredMetadata ==
  /\ (download_button.enabled \/ DownloadActive) =>
       /\ video_info # PNone
       /\ ~FormatsRaises(video_info)
       /\ video_quality_combo.items =
            VideoItems(SortedFormats(FormatsList(video_info)))
       /\ audio_quality_combo.items =
            AudioItems(SortedFormats(FormatsList(video_info)))
  /\ \A id \in DOMAIN workers :
       workers[id].kind = "download" =>
         /\ workers[id].command[11] = Get(video_info, "webpage_url", PNone)
         /\ workers[id].command[3] \in
              StoredIds \cup {PStr(Str(v) \o <<"+">> \o Str(a)) :
                                v \in StoredIds, a \in StoredIds}

\* a video-only format and the second audio format are being downloaded
C19_Witness ==
  \E id \in DOMAIN workers :
    /\ workers[id].kind = "download"
    /\ workers[id].command[3] = PStr(<<"137", "+", "251">>)
    /\ workers[id].pc = "reading"

\* the log holds no line of a successful fetch: none succeeded since the
\* log was last cleared, at the last fetch request
NoFetchSucceeded == \A i \in 1..Len(log_output) : log_output[i] # ParsedLine

\* C20: from a fetch that failed or returned an empty object until a fetch
\* succeeds, the download button and both combos are disabled and no
\* download runs.
C20_DisabledAfterFailedFetch ==
  NoFetchSucceeded =>
    /\ ~download_button.enabled
    /\ ~video_quality_combo.enabled
    /\ ~audio_quality_combo.enabled
    /\ ~DownloadActive

\* a fetch failed while metadata of an earlier one was stored, and the
\* user then asked for a fetch with a blank URL
C20_Witness ==
  /\ video_info # PNone
  /\ Len(video_quality_combo.items) > 0
  /\ log_output # <<>>
  /\ log_output[Len(log_output)] = ErrorLine(MsgNoJson)
  /\ message_box = "Input Error"
  /\ ~download_button.enabled

====
